---------------------------- MODULE Spec2Model ----------------------------
(***************************************************************************)
(* Enrichment pipeline of the real-estate listing tool: PropertyMatcher    *)
(* (src/matcher.py) with its HPDCache (src/hpd_cache.py) over the models   *)
(* of src/models.py.                                                       *)
(*                                                                         *)
(* Python strings are sequences of one-character strings, so that upper(), *)
(* strip(), replace(), split() and join() are computed as the code         *)
(* computes them.                                                          *)
(***************************************************************************)
EXTENDS Integers, Sequences, FiniteSets, TLC

\* Optional[T]: None is the empty sequence, a present value x is <<x>>
None == <<>>
Some(x) == <<x>>

(***************************************************************************)
(* Python str operations                                                   *)
(***************************************************************************)

\* str.upper() on one character (ASCII case folding)
UpperChar(c) ==
    CASE c = "a" -> "A" [] c = "b" -> "B" [] c = "k" -> "K" [] c = "l" -> "L"
      [] c = "n" -> "N" [] c = "o" -> "O" [] c = "r" -> "R" [] c = "s" -> "S"
      [] c = "t" -> "T" [] c = "y" -> "Y" [] c = "e" -> "E" [] c = "c" -> "C"
      [] c = "d" -> "D" [] c = "f" -> "F" [] c = "g" -> "G" [] c = "h" -> "H"
      [] c = "i" -> "I" [] c = "j" -> "J" [] c = "m" -> "M" [] c = "p" -> "P"
      [] c = "q" -> "Q" [] c = "u" -> "U" [] c = "v" -> "V" [] c = "w" -> "W"
      [] c = "x" -> "X" [] c = "z" -> "Z"
      [] OTHER -> c

\* str.upper()
Upper(s) == [i \in 1..Len(s) |-> UpperChar(s[i])]

\* str.lower() on one character (ASCII case folding)
LowerChar(c) ==
    CASE c = "A" -> "a" [] c = "B" -> "b" [] c = "C" -> "c" [] c = "D" -> "d"
      [] c = "E" -> "e" [] c = "F" -> "f" [] c = "G" -> "g" [] c = "H" -> "h"
      [] c = "I" -> "i" [] c = "J" -> "j" [] c = "K" -> "k" [] c = "L" -> "l"
      [] c = "M" -> "m" [] c = "N" -> "n" [] c = "O" -> "o" [] c = "P" -> "p"
      [] c = "Q" -> "q" [] c = "R" -> "r" [] c = "S" -> "s" [] c = "T" -> "t"
      [] c = "U" -> "u" [] c = "V" -> "v" [] c = "W" -> "w" [] c = "X" -> "x"
      [] c = "Y" -> "y" [] c = "Z" -> "z"
      [] OTHER -> c

\* str.lower()
Lower(s) == [i \in 1..Len(s) |-> LowerChar(s[i])]

\* `sub in s` on strings
Contains(s, sub) ==
    \E k \in 0..(Len(s) - Len(sub)) : SubSeq(s, k + 1, k + Len(sub)) = sub

\* position of the first occurrence of sep in s, 0 when there is none
Find(s, sep) ==
    IF Contains(s, sep)
    THEN CHOOSE k \in 1..Len(s) :
           /\ SubSeq(s, k, k + Len(sep) - 1) = sep
           /\ \A j \in 1..(k - 1) : SubSeq(s, j, j + Len(sep) - 1) # sep
    ELSE 0

\* str.split(sep) with a non-empty separator
RECURSIVE SplitOn(_, _)
SplitOn(s, sep) ==
    LET k == Find(s, sep)
    IN IF k = 0 THEN <<s>>
       ELSE <<SubSeq(s, 1, k - 1)>> \o SplitOn(SubSeq(s, k + Len(sep), Len(s)), sep)

IsSpace(c) == c = " "

RECURSIVE LStrip(_)
LStrip(s) == IF s # <<>> /\ IsSpace(Head(s)) THEN LStrip(Tail(s)) ELSE s

RECURSIVE RStrip(_)
RStrip(s) ==
    IF s # <<>> /\ IsSpace(s[Len(s)]) THEN RStrip(SubSeq(s, 1, Len(s) - 1)) ELSE s

\* str.strip()
Strip(s) == RStrip(LStrip(s))

\* str.replace(old, new): non-overlapping occurrences, left to right
RECURSIVE Replace(_, _, _)
Replace(s, old, new) ==
    IF Len(s) < Len(old) THEN s
    ELSE IF SubSeq(s, 1, Len(old)) = old
         THEN new \o Replace(SubSeq(s, Len(old) + 1, Len(s)), old, new)
         ELSE <<Head(s)>> \o Replace(Tail(s), old, new)

\* length of the first whitespace-free run of s
RECURSIVE WordLen(_)
WordLen(s) == IF s = <<>> \/ IsSpace(Head(s)) THEN 0 ELSE 1 + WordLen(Tail(s))

\* str.split(): the whitespace-separated words of s
RECURSIVE Split(_)
Split(s) ==
    LET t == LStrip(s)
        n == WordLen(t)
    IN IF t = <<>> THEN <<>>
       ELSE <<SubSeq(t, 1, n)>> \o Split(SubSeq(t, n + 1, Len(t)))

\* sep.join(words)
RECURSIVE Join(_, _)
Join(sep, words) ==
    IF words = <<>> THEN <<>>
    ELSE IF Len(words) = 1 THEN words[1]
    ELSE words[1] \o sep \o Join(sep, Tail(words))

\* truthiness of an Optional[str]: None and the empty string are falsy
Truthy(x) == x # None /\ x[1] # <<>>

\* `x or default` on an Optional[str]
OrElse(x, default) == IF Truthy(x) THEN x[1] ELSE default

(***************************************************************************)
(* fuzzywuzzy.fuzz.ratio over difflib.SequenceMatcher (no junk heuristic   *)
(* below 200 characters)                                                   *)
(***************************************************************************)

\* length of the common run of a from i and b from j, inside a[..ahi], b[..bhi]
RECURSIVE RunLen(_, _, _, _, _, _)
RunLen(a, i, ahi, b, j, bhi) ==
    IF i > ahi \/ j > bhi \/ a[i] # b[j] THEN 0
    ELSE 1 + RunLen(a, i + 1, ahi, b, j + 1, bhi)

Max(S) == CHOOSE x \in S : \A y \in S : y <= x
Min(S) == CHOOSE x \in S : \A y \in S : x <= y

\* SequenceMatcher.find_longest_match on a[alo..ahi], b[blo..bhi] (inclusive):
\* the longest block, the earliest in a, and of those the earliest in b
FindLongestMatch(a, alo, ahi, b, blo, bhi) ==
    LET k  == Max({0} \cup {RunLen(a, i, ahi, b, j, bhi) : i \in alo..ahi, j \in blo..bhi})
        i0 == Min({i \in alo..ahi : \E j \in blo..bhi : RunLen(a, i, ahi, b, j, bhi) = k})
        j0 == Min({j \in blo..bhi : RunLen(a, i0, ahi, b, j, bhi) = k})
    IN IF k = 0 THEN <<alo, blo, 0>> ELSE <<i0, j0, k>>

\* sum of the sizes of SequenceMatcher.get_matching_blocks
RECURSIVE Matches(_, _, _, _, _, _)
Matches(a, alo, ahi, b, blo, bhi) ==
    IF alo > ahi \/ blo > bhi THEN 0
    ELSE LET m == FindLongestMatch(a, alo, ahi, b, blo, bhi)
         IN IF m[3] = 0 THEN 0
            ELSE m[3] + Matches(a, alo, m[1] - 1, b, blo, m[2] - 1)
                      + Matches(a, m[1] + m[3], ahi, b, m[2] + m[3], bhi)

\* utils.intr(100 * 2.0 * m / t): int(round(.)), Python rounds half to even
Intr200(m, t) ==
    LET q == (200 * m) \div t
        r == (200 * m) % t
    IN IF 2 * r < t THEN q
       ELSE IF 2 * r > t THEN q + 1
       ELSE IF q % 2 = 0 THEN q ELSE q + 1

\* fuzz.ratio without check_for_equivalence
FuzzRatioNoEquivalence(s1, s2) ==
    IF Len(s1) = 0 \/ Len(s2) = 0 THEN 0
    ELSE Intr200(Matches(s1, 1, Len(s1), s2, 1, Len(s2)), Len(s1) + Len(s2))

\* fuzz.ratio: check_for_equivalence, then check_empty_string, then the ratio
FuzzRatio(s1, s2) ==
    IF s1 = s2 THEN 100
    ELSE IF Len(s1) = 0 \/ Len(s2) = 0 THEN 0
    ELSE Intr200(Matches(s1, 1, Len(s1), s2, 1, Len(s2)), Len(s1) + Len(s2))

(***************************************************************************)
(* String literals                                                         *)
(***************************************************************************)

CommaSpace == <<",", " ">>
BROOKLYN == <<"B", "R", "O", "O", "K", "L", "Y", "N">>
Brooklyn == <<"B", "r", "o", "o", "k", "l", "y", "n">>
CommaNY == <<",", " ", "N", "Y">>
NA == <<"N", "/", "A">>
Yes == <<"Y", "e", "s">>
No == <<"N", "o">>
High == <<"H", "i", "g", "h">>
Medium == <<"M", "e", "d", "i", "u", "m">>
Low == <<"L", "o", "w">>

\* str(n) for the unit numbers in use
DigitStr(n) ==
    CASE n = 0 -> <<"0">> [] n = 1 -> <<"1">> [] n = 2 -> <<"2">> [] n = 3 -> <<"3">>
      [] n = 4 -> <<"4">> [] n = 5 -> <<"5">> [] n = 6 -> <<"6">> [] n = 7 -> <<"7">>
      [] n = 8 -> <<"8">> [] OTHER -> <<"9">>

\* str(n) of a natural number
RECURSIVE IntStr(_)
IntStr(n) == IF n < 10 THEN DigitStr(n) ELSE IntStr(n \div 10) \o DigitStr(n % 10)

\* the value of a decimal digit
DigitVal(c) == CHOOSE d \in 0..9 : DigitStr(d) = <<c>>

\* int(s) of a string of decimal digits
RECURSIVE ParseInt(_)
ParseInt(s) ==
    IF s = <<>> THEN 0
    ELSE 10 * ParseInt(SubSeq(s, 1, Len(s) - 1)) + DigitVal(s[Len(s)])

(***************************************************************************)
(* src/models.py.  Only the fields the matcher, the cache and the filter   *)
(* read are kept: Address(street, borough, zip_code), ZillowProperty       *)
(* (address, price, bedrooms, bathrooms, property_type, days_on_market),   *)
(* HPDBUnit(unit_number, is_b_unit), HPDBuilding(address, total_units,     *)
(* b_units, has_b_units).  bathrooms is a float with one decimal in the    *)
(* code; it is counted in tenths here (45 for 4.5).                        *)
(***************************************************************************)

Address(street, borough, zip_code) ==
    [street |-> street, borough |-> borough, zip_code |-> zip_code]

\* ZillowProperty(address=address): the Optional fields default to None
ZillowProperty(address) ==
    [address |-> address, price |-> None, bedrooms |-> None, bathrooms |-> None,
     property_type |-> None, days_on_market |-> None]

HPDBUnit(unit_number, is_b_unit) ==
    [unit_number |-> unit_number, is_b_unit |-> is_b_unit]

HPDBuilding(address, total_units, b_units, has_b_units) ==
    [address |-> address, total_units |-> total_units,
     b_units |-> b_units, has_b_units |-> has_b_units]

\* EnrichedProperty(zillow_data=zp, hpd_match_found=False): the field defaults
EnrichedProperty(zp) ==
    [zillow_data |-> zp, hpd_data |-> None, hpd_match_found |-> FALSE,
     has_b_units |-> FALSE, b_unit_count |-> 0, total_units |-> 0,
     meets_criteria |-> FALSE, match_confidence |-> None, notes |-> None]

(***************************************************************************)
(* PropertyMatcher: address normalisation and similarity (src/matcher.py)  *)
(***************************************************************************)

match_threshold == 80
HighCutoff == 95
MediumCutoff == 85
BoroughBoost == 10
ZipBoost == 10

\* the replacements dict, in insertion order
replacements ==
    << <<<<"S","T","R","E","E","T">>, <<"S","T">>>>,
       <<<<"A","V","E","N","U","E">>, <<"A","V","E">>>>,
       <<<<"R","O","A","D">>, <<"R","D">>>>,
       <<<<"B","O","U","L","E","V","A","R","D">>, <<"B","L","V","D">>>>,
       <<<<"D","R","I","V","E">>, <<"D","R">>>>,
       <<<<"L","A","N","E">>, <<"L","N">>>>,
       <<<<"P","L","A","C","E">>, <<"P","L">>>>,
       <<<<"E","A","S","T">>, <<"E">>>>,
       <<<<"W","E","S","T">>, <<"W">>>>,
       <<<<"N","O","R","T","H">>, <<"N">>>>,
       <<<<"S","O","U","T","H">>, <<"S">>>> >>

\* for old, new in replacements.items(): street = street.replace(old, new)
RECURSIVE ApplyReplacements(_, _)
ApplyReplacements(street, n) ==
    IF n > Len(replacements) THEN street
    ELSE ApplyReplacements(Replace(street, replacements[n][1], replacements[n][2]), n + 1)

\* PropertyMatcher._normalize_address
Matcher_normalize_address(address) ==
    Join(<<" ">>, Split(ApplyReplacements(Strip(Upper(address.street)), 1)))

Min2(a, b) == IF a <= b THEN a ELSE b

\* PropertyMatcher._calculate_address_similarity
calculate_address_similarity(addr1, addr2) ==
    LET base == FuzzRatio(Matcher_normalize_address(addr1), Matcher_normalize_address(addr2))
        s1 == IF /\ Truthy(addr1.borough) /\ Truthy(addr2.borough)
                 /\ Upper(addr1.borough[1]) = Upper(addr2.borough[1])
              THEN Min2(100, base + BoroughBoost) ELSE base
    IN IF /\ Truthy(addr1.zip_code) /\ Truthy(addr2.zip_code)
          /\ addr1.zip_code = addr2.zip_code
       THEN Min2(100, s1 + ZipBoost) ELSE s1

\* Confidence with the cutoffs taken strictly (> for >=)
ConfidenceStrict(similarity) ==
    IF similarity > HighCutoff THEN High
    ELSE IF similarity > MediumCutoff THEN Medium
    ELSE Low

\* the tier of a score that cleared the threshold
Confidence(similarity) ==
    IF similarity >= HighCutoff THEN High
    ELSE IF similarity >= MediumCutoff THEN Medium
    ELSE Low

\* f"{street}, {borough or 'Brooklyn'}, NY": the key of new_hpd_data
AddressStr(address) ==
    address.street \o CommaSpace \o OrElse(address.borough, Brooklyn) \o CommaNY

(***************************************************************************)
(* HPDCache (src/hpd_cache.py)                                             *)
(*                                                                         *)
(* A cell of a cache row is <<"str", s>>, <<"num", n>> or <<"nan">> (an    *)
(* empty cell; row.get of a column the row does not have behaves the       *)
(* same in the only place that reads it).  Columns that are copied from    *)
(* the listing and never read back (price, bedrooms, bathrooms, URL,       *)
(* date) are left out.  cache_data is a dict: a sequence of <<key, row>>   *)
(* in insertion order.  The backing file is <<"missing">>, <<"corrupt">>   *)
(* (not readable as a workbook) or <<"rows", rows>>.                       *)
(***************************************************************************)

Str(s) == <<"str", s>>
Num(n) == <<"num", n>>
NaNCell == <<"nan">>

MissingStore == <<"missing">>
CorruptStore == <<"corrupt">>
FileStore(rows) == <<"rows", rows>>

DictKeys(d) == {d[n][1] : n \in DOMAIN d}
DictGet(d, k) == d[CHOOSE n \in DOMAIN d : d[n][1] = k][2]
DictSet(d, k, v) ==
    IF k \in DictKeys(d)
    THEN [n \in DOMAIN d |-> IF d[n][1] = k THEN <<k, v>> ELSE d[n]]
    ELSE Append(d, <<k, v>>)
DictValues(d) == [n \in DOMAIN d |-> d[n][2]]

\* HPDCache._normalize_address
Cache_normalize_address(address) ==
    Strip(Upper(address.street)) \o CommaSpace \o Strip(Upper(OrElse(address.borough, BROOKLYN)))

\* pd.read_excel on one cell: the default na_values ('' and 'N/A' here) read as NaN
ReadCell(c) == IF c[1] = "str" /\ c[2] \in {<<>>, NA} THEN NaNCell ELSE c

ReadRow(row) == [col \in DOMAIN row |-> ReadCell(row[col])]

\* row['Street'].upper() and row['Borough'].upper() need both cells to be str
Keyable(row) == row.Street[1] = "str" /\ row.Borough[1] = "str"

\* f"{row['Street'].upper()}, {row['Borough'].upper()}"
LoadKey(row) == Upper(row.Street[2]) \o CommaSpace \o Upper(row.Borough[2])

\* the loop of _load_cache: a row that cannot be keyed raises and ends the loop,
\* the entries before it stay
RECURSIVE LoadRows(_, _)
LoadRows(rows, acc) ==
    IF rows = <<>> THEN acc
    ELSE LET row == ReadRow(Head(rows))
         IN IF ~Keyable(row) THEN acc
            ELSE LoadRows(Tail(rows), DictSet(acc, LoadKey(row), row))

\* HPDCache._load_cache, from the empty cache_data of __init__
load_cache(file) == IF file[1] = "rows" THEN LoadRows(file[2], <<>>) ELSE <<>>

\* PlaceholderUnits with the labels counted from 0
PlaceholderUnitsFromZero(n) == [u \in 1..n |-> HPDBUnit(<<"B">> \o DigitStr(u - 1), TRUE)]

\* the placeholder units of a cached row: B1 .. Bn
PlaceholderUnits(n) == [u \in 1..n |-> HPDBUnit(<<"B">> \o DigitStr(u), TRUE)]

\* HPDCache.get_cached_hpd_data: None on a missing key and on a row that does
\* not reconstruct (a text cell where a number is read raises inside the try)
get_cached_hpd_data(cache, address) ==
    LET key == Cache_normalize_address(address)
    IN IF key \notin DictKeys(cache) THEN None
       ELSE LET row == DictGet(cache, key)
                bc == row.BUnitCount
                tu == row.TotalUnits
                n == IF bc[1] = "num" /\ bc[2] > 0 THEN bc[2] ELSE 0
                b_units == PlaceholderUnits(n)
            IN IF bc[1] = "str" /\ bc[2] # <<>> THEN None
               ELSE IF tu[1] = "str" THEN None
               ELSE Some(HPDBuilding(address,
                                     IF tu[1] = "num" THEN tu[2] ELSE 0,
                                     b_units, Len(b_units) > 0))

\* the row save_to_cache builds from an enriched property
CacheRow(prop) ==
    LET zillow == prop.zillow_data
        building == prop.hpd_data[1]
    IN [Street |-> Str(zillow.address.street),
        Borough |-> Str(OrElse(zillow.address.borough, Brooklyn)),
        BUnitCount |-> Num(Len(building.b_units)),
        HasBUnits |-> Str(IF building.has_b_units THEN Yes ELSE No),
        BUnitNumbers |->
            Str(IF building.b_units # <<>>
                THEN Join(CommaSpace, [u \in DOMAIN building.b_units |->
                                          <<"B">> \o building.b_units[u].unit_number])
                ELSE NA),
        MatchConfidence |-> Str(OrElse(prop.match_confidence, NA)),
        TotalUnits |-> NaNCell]

\* SaveLoop without the `if key in self.cache_data: continue` test
RECURSIVE SaveLoopNoSkip(_, _, _)
SaveLoopNoSkip(props, new_data, cache) ==
    IF props = <<>> THEN <<new_data, cache>>
    ELSE LET prop == Head(props)
             key == Cache_normalize_address(prop.zillow_data.address)
         IN IF ~prop.hpd_match_found \/ prop.hpd_data = None
            THEN SaveLoopNoSkip(Tail(props), new_data, cache)
            ELSE SaveLoopNoSkip(Tail(props), Append(new_data, CacheRow(prop)),
                                DictSet(cache, key, CacheRow(prop)))

\* the loop of save_to_cache over enriched_properties: <<new_data, cache_data>>
RECURSIVE SaveLoop(_, _, _)
SaveLoop(props, new_data, cache) ==
    IF props = <<>> THEN <<new_data, cache>>
    ELSE LET prop == Head(props)
             key == Cache_normalize_address(prop.zillow_data.address)
         IN IF ~prop.hpd_match_found \/ prop.hpd_data = None
            THEN SaveLoop(Tail(props), new_data, cache)
            ELSE IF key \in DictKeys(cache)
            THEN SaveLoop(Tail(props), new_data, cache)
            ELSE SaveLoop(Tail(props), Append(new_data, CacheRow(prop)),
                          DictSet(cache, key, CacheRow(prop)))

\* save_to_cache without the early return on an empty list
SaveWritesEmpty(cache, file, props, write_ok) ==
    LET r == SaveLoop(props, DictValues(cache), cache)
    IN [cache_data |-> r[2],
        store |-> IF write_ok THEN FileStore(r[1]) ELSE file,
        wrote |-> write_ok]

\* save_to_cache that keeps its new entries only when the file was written
SaveForgetsOnFailure(cache, file, props, write_ok) ==
    IF props = <<>> THEN [cache_data |-> cache, store |-> file, wrote |-> FALSE]
    ELSE LET r == SaveLoop(props, DictValues(cache), cache)
         IN [cache_data |-> IF write_ok THEN r[2] ELSE cache,
             store |-> IF write_ok THEN FileStore(r[1]) ELSE file,
             wrote |-> write_ok]

\* HPDCache.save_to_cache: the cache_data and the file it leaves; write_ok is
\* whether df.to_excel succeeds (a failure is logged and the file stays)
save_to_cache(cache, file, props, write_ok) ==
    IF props = <<>> THEN [cache_data |-> cache, store |-> file, wrote |-> FALSE]
    ELSE LET r == SaveLoop(props, DictValues(cache), cache)
         IN [cache_data |-> r[2],
             store |-> IF write_ok THEN FileStore(r[1]) ELSE file,
             wrote |-> write_ok]

(***************************************************************************)
(* PropertyMatcher.match_property (src/matcher.py)                         *)
(*                                                                         *)
(* The lookup collaborator hpd_scraper.search_by_address is taken at its   *)
(* interface: one call returns no record, raises, or returns a building.   *)
(***************************************************************************)

NoRecord == <<"none">>
Raises == <<"raise">>
Found(building) == <<"found", building>>

\* Attach with the special-unit count read from the wrong field
AttachWrongCount(enriched, building, similarity) ==
    [enriched EXCEPT !.hpd_data = Some(building),
                     !.hpd_match_found = TRUE,
                     !.has_b_units = building.has_b_units,
                     !.b_unit_count = building.total_units,
                     !.total_units = building.total_units,
                     !.match_confidence = Some(Confidence(similarity))]

\* the assignments of the matched branch
Attach(enriched, building, similarity) ==
    [enriched EXCEPT !.hpd_data = Some(building),
                     !.hpd_match_found = TRUE,
                     !.has_b_units = building.has_b_units,
                     !.b_unit_count = Len(building.b_units),
                     !.total_units = building.total_units,
                     !.match_confidence = Some(Confidence(similarity))]

\* UseCached with the cached record ignored
UseCachedNever(cached) == FALSE

\* `if cached_building:` takes the cached record when there is one
UseCached(cached) == cached # None

\* CollaboratorCalls with the lookup issued before the cache is consulted
CallsBeforeCache(cached) == 1

\* CollaboratorCalls with a second attempt after the first
CallsWithRetry(cached) == IF cached # None THEN 0 ELSE 2

\* the collaborator calls of one match_property: one, in the else branch
CollaboratorCalls(cached) == IF UseCached(cached) THEN 0 ELSE 1

\* Escapes without the except clause
EscapesUncaught(outcome) == outcome[1] = "raise"

\* `except Exception` around the body: nothing the collaborator raises leaves
\* match_property
Escapes(outcome) == FALSE

\* Gate that lets every candidate through
GateOpen(similarity) == TRUE

\* `if similarity >= self.match_threshold`
Gate(similarity) == similarity >= match_threshold

\* match_property on one listing, with the answer of the collaborator should it
\* be called: the enriched property returned, new_hpd_data after it, the number
\* of collaborator calls made, what the cache returned, and whether an
\* exception leaves the coroutine
match_property(zp, cache, new, outcome) ==
    LET enriched == EnrichedProperty(zp)
        cached == get_cached_hpd_data(cache, zp.address)
        calls == CollaboratorCalls(cached)
        hpd_building == IF UseCached(cached) THEN cached
                        ELSE IF outcome[1] = "found" THEN Some(outcome[2])
                        ELSE None
        similarity == calculate_address_similarity(zp.address, hpd_building[1].address)
    IN IF calls > 0 /\ outcome[1] = "raise"
       THEN [enriched |-> enriched, new_hpd_data |-> new, calls |-> calls,
             cached |-> cached, raised |-> Escapes(outcome)]
       ELSE [enriched |-> IF hpd_building # None /\ Gate(similarity)
                          THEN Attach(enriched, hpd_building[1], similarity)
                          ELSE enriched,
             new_hpd_data |-> IF ~UseCached(cached) /\ hpd_building # None
                              THEN new \cup {AddressStr(zp.address)} ELSE new,
             calls |-> calls,
             cached |-> cached, raised |-> FALSE]

(***************************************************************************)
(* PropertyMatcher.match_properties_batch (src/matcher.py)                 *)
(***************************************************************************)

\* zillow_properties[i:i + batch_size], as the positions of its members
BatchIndices(n, i, bs) == (i + 1)..Min2(i + bs, n)

\* TaskDone that keeps results in completion order
TaskDoneInCompletionOrder(res, pos, r) ==
    [res EXCEPT ![CHOOSE k \in DOMAIN res :
                    res[k] = None /\ \A j \in 1..(k - 1) : res[j] # None] = Some(r)]

\* asyncio.gather: the result of a task is kept at the position of the task
TaskDone(res, pos, r) == [res EXCEPT ![pos] = Some(r)]

\* results of a joined batch, in task order
Gathered(res) == [n \in DOMAIN res |-> res[n][1]]

\* the test of the new_enriched comprehension
IsNewEnriched(p, new) ==
    p.hpd_match_found /\ AddressStr(p.zillow_data.address) \in new

(***************************************************************************)
(* Inputs                                                                  *)
(***************************************************************************)

\* the listings handed to match_properties_batch, over all its calls
MaxListings == 2
\* the largest batch_size
MaxBatch == 2

Zip == <<"1", "1", "2", "0", "1">>
St1 == <<"1", " ", "S", "T">>
St1Long == <<"1", " ", "S", "T", "R", "E", "E", "T">>
St2 == <<"2", " ", "S", "T">>
St1A == <<"1", " ", "S", "T", " ", "A">>

L1 == ZillowProperty(Address(St1, Some(Brooklyn), Some(Zip)))
L2 == ZillowProperty(Address(St1Long, None, None))
Listings == {L1, L2}

U(label) == HPDBUnit(label, TRUE)
B100 == HPDBuilding(Address(St1, Some(BROOKLYN), Some(Zip)), 3,
                    <<U(<<"1">>), U(<<"2">>)>>, TRUE)
B95 == HPDBuilding(Address(St2, Some(BROOKLYN), Some(Zip)), 2, <<U(<<"C">>)>>, TRUE)
B85 == HPDBuilding(Address(St2, Some(BROOKLYN), None), 1, <<>>, FALSE)
B80 == HPDBuilding(Address(St1A, None, None), 0, <<>>, FALSE)
Buildings == {B100, B95, B85, B80}

Outcomes == {NoRecord, Raises} \cup {Found(b) : b \in Buildings}

\* a row an earlier run saved for "1 ST" in Brooklyn
OldRow ==
    [Street |-> Str(St1), Borough |-> Str(Brooklyn), BUnitCount |-> Num(1),
     HasBUnits |-> Str(Yes), BUnitNumbers |-> Str(<<"B", "7">>),
     MatchConfidence |-> Str(High), TotalUnits |-> NaNCell]
\* the same row with text in the Total Units column
TextRow == [OldRow EXCEPT !.TotalUnits = Str(<<"?">>)]

\* a row whose Street cell is empty
BlankRow == [OldRow EXCEPT !.Street = Str(<<>>)]

InitialStores ==
    {MissingStore, CorruptStore, FileStore(<<OldRow>>), FileStore(<<TextRow>>),
     FileStore(<<OldRow, BlankRow>>)}

ListingSeqs == UNION {[1..n -> Listings] : n \in 0..MaxListings}

(***************************************************************************)
(* State                                                                   *)
(***************************************************************************)

VARIABLES
    store,               \* the backing file of the cache
    cache_data,          \* HPDCache.cache_data
    new_hpd_data,        \* the keys of PropertyMatcher.new_hpd_data
    zillow_properties,   \* the argument of the running match_properties_batch
    batch_size,          \* its batch_size
    i,                   \* the loop variable i
    results,             \* per task of the batch: None while pending, else its result
    enriched_properties, \* the list being built, and returned
    pc,                  \* "idle", "batch" (tasks running), "sleep", "done"
    used,                \* listings handed to match_properties_batch so far
    lookups,             \* per listing of the run: what its match_property did (None
                         \* until it ran), and whether a later task completed before it
    handed,              \* positions of the records given to save_to_cache
    wrote,               \* whether this run wrote the backing file
    properties,          \* the list given to PropertyFilter.filter_properties; its
                         \* elements are the objects the filter mutates
    filter_log,          \* per call of filter_properties: the criteria and the list
                         \* returned, as positions in properties
    addr1,               \* an Address given to the normalisers and the scorer
    addr2,               \* a second Address: addr1, or addr1 written differently
    answer               \* what the last call on them returned, None before

matcher_vars == <<store, cache_data, new_hpd_data, zillow_properties, batch_size, i,
                  results, enriched_properties, pc, used, lookups, handed, wrote>>

filter_vars == <<properties, filter_log>>

address_vars == <<addr1, addr2, answer>>

\* the state outside the matcher and its cache
side_vars == <<filter_vars, address_vars>>

vars == <<matcher_vars, side_vars>>

\* no filter is running
FilterIdle == properties = <<>> /\ filter_log = <<>>

\* no address is under study
AddressIdle == addr1 = None /\ addr2 = None /\ answer = None

\* PropertyMatcher.__init__: HPDCache() loads the file, new_hpd_data = {}
Init ==
    /\ store \in InitialStores
    /\ cache_data = load_cache(store)
    /\ new_hpd_data = {}
    /\ zillow_properties = <<>>
    /\ batch_size = 1
    /\ i = 0
    /\ results = <<>>
    /\ enriched_properties = <<>>
    /\ pc = "idle"
    /\ used = 0
    /\ lookups = <<>>
    /\ handed = {}
    /\ wrote = FALSE
    /\ FilterIdle
    /\ AddressIdle

\* the code after the loop: new_enriched, save_to_cache, return
Finish(enr) ==
    LET new_enriched == SelectSeq(enr, LAMBDA p : IsNewEnriched(p, new_hpd_data))
    IN \E write_ok \in (IF new_enriched = <<>> THEN {TRUE} ELSE BOOLEAN) :
         LET saved == save_to_cache(cache_data, store, new_enriched, write_ok)
         IN /\ cache_data' = saved.cache_data
            /\ store' = saved.store
            /\ wrote' = saved.wrote
            /\ handed' = {n \in DOMAIN enr : IsNewEnriched(enr[n], new_hpd_data)}
            /\ enriched_properties' = enr
            /\ pc' = "done"

\* the tasks of the batch that starts at i
NewTasks(n, start, bs) == [k \in 1..Cardinality(BatchIndices(n, start, bs)) |-> None]

\* match_properties_batch is called: up to the first gather (or, with no
\* listing, to the return)
StartRun(zs, bs) ==
    /\ pc = "idle"
    /\ used + Len(zs) <= MaxListings
    /\ used' = used + Len(zs)
    /\ zillow_properties' = zs
    /\ batch_size' = bs
    /\ i' = 0
    /\ lookups' = [n \in DOMAIN zs |-> None]
    /\ UNCHANGED new_hpd_data
    /\ IF zs = <<>>
       THEN /\ results' = <<>>
            /\ Finish(<<>>)
       ELSE /\ results' = NewTasks(Len(zs), 0, bs)
            /\ enriched_properties' = <<>>
            /\ pc' = "batch"
            /\ UNCHANGED <<store, cache_data, handed, wrote>>
    /\ UNCHANGED side_vars

\* one task of the batch runs match_property (it never awaits, so it runs whole)
MatchProperty(pos) ==
    /\ pc = "batch"
    /\ pos \in DOMAIN results
    /\ results[pos] = None
    /\ LET zp == zillow_properties[i + pos]
       IN \E outcome \in (IF CollaboratorCalls(get_cached_hpd_data(cache_data, zp.address)) > 0
                          THEN Outcomes ELSE {NoRecord}) :
            LET r == match_property(zp, cache_data, new_hpd_data, outcome)
            IN /\ new_hpd_data' = r.new_hpd_data
               /\ lookups' = [lookups EXCEPT ![i + pos] =
                     Some([key_present |-> Cache_normalize_address(zp.address)
                                              \in DictKeys(cache_data),
                           cached |-> r.cached,
                           calls |-> r.calls,
                           outcome |-> IF r.calls = 0 THEN <<"unused">> ELSE outcome,
                           overtaken |-> \E later \in DOMAIN results :
                                            later > pos /\ results[later] # None])]
               /\ IF r.raised
                  THEN /\ pc' = "raised"
                       /\ UNCHANGED results
                  ELSE /\ results' = TaskDone(results, pos, r.enriched)
                       /\ UNCHANGED pc
    /\ UNCHANGED <<store, cache_data, zillow_properties, batch_size, i,
                   enriched_properties, used, handed, wrote, side_vars>>

\* Gather that starts the next batch at once, without the sleep
GatherNoPacing ==
    /\ pc = "batch"
    /\ \A pos \in DOMAIN results : results[pos] # None
    /\ LET enr == enriched_properties \o Gathered(results)
       IN IF i + batch_size < Len(zillow_properties)
          THEN /\ enriched_properties' = enr
               /\ i' = i + batch_size
               /\ results' = NewTasks(Len(zillow_properties), i + batch_size, batch_size)
               /\ UNCHANGED <<pc, store, cache_data, handed, wrote>>
          ELSE /\ Finish(enr)
               /\ UNCHANGED <<i, results>>
    /\ UNCHANGED <<new_hpd_data, zillow_properties, batch_size, used, lookups, side_vars>>

\* Gather that also hands the new records of each joined batch to save_to_cache
GatherSavesEachBatch ==
    /\ pc = "batch"
    /\ \A pos \in DOMAIN results : results[pos] # None
    /\ LET enr == enriched_properties \o Gathered(results)
       IN IF i + batch_size < Len(zillow_properties)
          THEN LET batch_new == SelectSeq(Gathered(results),
                                          LAMBDA p : IsNewEnriched(p, new_hpd_data))
                   saved == save_to_cache(cache_data, store, batch_new, TRUE)
               IN /\ enriched_properties' = enr
                  /\ pc' = "sleep"
                  /\ cache_data' = saved.cache_data
                  /\ store' = saved.store
                  /\ UNCHANGED <<handed, wrote>>
          ELSE Finish(enr)
    /\ UNCHANGED <<new_hpd_data, zillow_properties, batch_size, i, results,
                   used, lookups, side_vars>>

\* gather returns, the results are appended; with listings left the loop
\* sleeps, otherwise the run ends
Gather ==
    /\ pc = "batch"
    /\ \A pos \in DOMAIN results : results[pos] # None
    /\ LET enr == enriched_properties \o Gathered(results)
       IN IF i + batch_size < Len(zillow_properties)
          THEN /\ enriched_properties' = enr
               /\ pc' = "sleep"
               /\ UNCHANGED <<store, cache_data, handed, wrote>>
          ELSE Finish(enr)
    /\ UNCHANGED <<new_hpd_data, zillow_properties, batch_size, i, results,
                   used, lookups, side_vars>>

\* asyncio.sleep(1) returns and the loop starts the next batch
Sleep ==
    /\ pc = "sleep"
    /\ i' = i + batch_size
    /\ results' = NewTasks(Len(zillow_properties), i + batch_size, batch_size)
    /\ pc' = "batch"
    /\ UNCHANGED <<store, cache_data, new_hpd_data, zillow_properties, batch_size,
                   enriched_properties, used, lookups, handed, wrote, side_vars>>

\* the caller takes the returned list; the matcher is ready for another call
Return ==
    /\ pc = "done"
    /\ pc' = "idle"
    /\ zillow_properties' = <<>>
    /\ batch_size' = 1
    /\ i' = 0
    /\ results' = <<>>
    /\ enriched_properties' = <<>>
    /\ lookups' = <<>>
    /\ handed' = {}
    /\ wrote' = FALSE
    /\ UNCHANGED <<store, cache_data, new_hpd_data, used, side_vars>>

Next ==
    \/ \E zs \in ListingSeqs, bs \in 1..MaxBatch : StartRun(zs, bs)
    \/ \E pos \in 1..MaxBatch : MatchProperty(pos)
    \/ Gather
    \/ Sleep
    \/ Return

Spec == Init /\ [][Next]_vars

(***************************************************************************)
(* PropertyFilter (src/filters.py) over FilterCriteria (src/config.py).    *)
(* Prices and scores are floats that only ever hold whole numbers here;    *)
(* min_bathrooms, like bathrooms, is counted in tenths.                    *)
(***************************************************************************)

FilterCriteria(min_price, max_price, min_bedrooms, min_bathrooms, min_units, require_b_units, boroughs, property_types) ==
    [min_price |-> min_price, max_price |-> max_price,
     min_bedrooms |-> min_bedrooms, min_bathrooms |-> min_bathrooms,
     min_units |-> min_units, require_b_units |-> require_b_units,
     boroughs |-> boroughs, property_types |-> property_types]

\* the price test negated
PriceOutsideRange(property, criteria) ==
    /\ property.zillow_data.price # None
    /\ ~ /\ criteria.min_price <= property.zillow_data.price[1]
         /\ property.zillow_data.price[1] <= criteria.max_price

\* PropertyFilter.meets_price_criteria
meets_price_criteria(property, criteria) ==
    /\ property.zillow_data.price # None
    /\ criteria.min_price <= property.zillow_data.price[1]
    /\ property.zillow_data.price[1] <= criteria.max_price

\* PropertyFilter.meets_bedroom_criteria
meets_bedroom_criteria(property, criteria) ==
    /\ property.zillow_data.bedrooms # None
    /\ property.zillow_data.bedrooms[1] >= criteria.min_bedrooms

\* PropertyFilter.meets_bathroom_criteria
meets_bathroom_criteria(property, criteria) ==
    /\ property.zillow_data.bathrooms # None
    /\ property.zillow_data.bathrooms[1] >= criteria.min_bathrooms

\* the unit test without the match-found test
UnitsWithoutMatch(property, criteria) ==
    property.total_units >= criteria.min_units

\* PropertyFilter.meets_unit_criteria
meets_unit_criteria(property, criteria) ==
    /\ property.hpd_match_found
    /\ property.total_units >= criteria.min_units

\* the special-unit test with the configuration flag ignored
RequiredIgnored(property, criteria) == TRUE

\* PropertyFilter.has_required_b_units
has_required_b_units(property, criteria) ==
    IF ~criteria.require_b_units THEN TRUE ELSE property.has_b_units

\* PropertyFilter.meets_borough_criteria
meets_borough_criteria(property, criteria) ==
    IF ~Truthy(criteria.boroughs) THEN TRUE
    ELSE LET borough == property.zillow_data.address.borough
         IN /\ Truthy(borough)
            /\ \E k \in DOMAIN criteria.boroughs[1] : criteria.boroughs[1][k] = borough[1]

\* the type test without the case folding
TypeCaseSensitive(property, criteria) ==
    IF ~Truthy(criteria.property_types) THEN TRUE
    ELSE LET property_type == property.zillow_data.property_type
         IN /\ Truthy(property_type)
            /\ \E k \in DOMAIN criteria.property_types[1] :
                  Contains(property_type[1], criteria.property_types[1][k])

\* PropertyFilter.meets_property_type_criteria
meets_property_type_criteria(property, criteria) ==
    IF ~Truthy(criteria.property_types) THEN TRUE
    ELSE LET property_type == property.zillow_data.property_type
         IN /\ Truthy(property_type)
            /\ \E k \in DOMAIN criteria.property_types[1] :
                  Contains(Lower(property_type[1]), Lower(criteria.property_types[1][k]))

\* passes_all of filter_properties
PassesAll(property, criteria) ==
    /\ meets_price_criteria(property, criteria)
    /\ meets_bedroom_criteria(property, criteria)
    /\ meets_bathroom_criteria(property, criteria)
    /\ meets_unit_criteria(property, criteria)
    /\ has_required_b_units(property, criteria)
    /\ meets_borough_criteria(property, criteria)
    /\ meets_property_type_criteria(property, criteria)

\* the score before the cap; price / total_units <= k is price <= k * total_units
RawScore(property) ==
    LET price == property.zillow_data.price
        dom == property.zillow_data.days_on_market
    IN (IF property.has_b_units THEN 30 ELSE 0)
       + Min2(property.b_unit_count * 10, 30)
       + (IF property.total_units > 0 THEN Min2(property.total_units * 5, 25) ELSE 0)
       + (IF price # None /\ price[1] # 0 /\ property.total_units > 0
          THEN IF price[1] <= 100000 * property.total_units THEN 15
               ELSE IF price[1] <= 150000 * property.total_units THEN 10
               ELSE IF price[1] <= 200000 * property.total_units THEN 5
               ELSE 0
          ELSE 0)
       + (IF dom # None
          THEN IF dom[1] <= 7 THEN 10
               ELSE IF dom[1] <= 14 THEN 7
               ELSE IF dom[1] <= 30 THEN 5
               ELSE 0
          ELSE 0)

\* the score returned without the cap
ScoreUncapped(property) == RawScore(property)

\* PropertyFilter.calculate_investment_score
calculate_investment_score(property) == Min2(RawScore(property), 100)

InvestmentScoreLabel == <<"I","n","v","e","s","t","m","e","n","t"," ","S","c","o","r","e">>
ColonSpace == <<":", " ">>
Slash100 == <<"/", "1", "0", "0">>

\* f"{score:.1f}" of a whole score
FormatScore(score) == IntStr(score) \o <<".", "0">>

\* f"Investment Score: {score:.1f}/100"
ScoreNotes(score) == InvestmentScoreLabel \o ColonSpace \o FormatScore(score) \o Slash100

\* float(text) of a decimal with one fractional digit, in tenths
ParseFloat(text) ==
    LET parts == SplitOn(text, <<".">>)
    IN 10 * ParseInt(parts[1]) + (IF Len(parts) > 1 THEN ParseInt(parts[2]) ELSE 0)

\* the sort key: float(p.notes.split(': ')[1].split('/')[0]) if p.notes else 0
SortKey(property) ==
    IF Truthy(property.notes)
    THEN ParseFloat(SplitOn(SplitOn(property.notes[1], ColonSpace)[2], <<"/">>)[1])
    ELSE 0

\* the place of x in an ascending stable sort
InsertAscending(sorted, x, keys) ==
    LET k == Cardinality({n \in DOMAIN sorted : keys[sorted[n]] <= keys[x]})
    IN SubSeq(sorted, 1, k) \o <<x>> \o SubSeq(sorted, k + 1, Len(sorted))

\* list.sort(key=..., reverse=True) places x after every element whose key is
\* not smaller: descending, elements of equal key in their original order
InsertSorted(sorted, x, keys) ==
    LET k == Cardinality({n \in DOMAIN sorted : keys[sorted[n]] >= keys[x]})
    IN SubSeq(sorted, 1, k) \o <<x>> \o SubSeq(sorted, k + 1, Len(sorted))

\* list.sort(key=..., reverse=True) of a list of positions
RECURSIVE SortDescending(_, _)
SortDescending(positions, keys) ==
    IF positions = <<>> THEN <<>>
    ELSE InsertSorted(SortDescending(SubSeq(positions, 1, Len(positions) - 1), keys),
                      positions[Len(positions)], keys)

\* PropertyFilter.filter_properties: the list with the passing elements
\* mutated, and the list returned (positions in the list given)
filter_properties(props, criteria) ==
    LET passes(n) == PassesAll(props[n], criteria)
        after == [n \in DOMAIN props |->
                    IF passes(n)
                    THEN [props[n] EXCEPT
                            !.meets_criteria = TRUE,
                            !.notes = Some(ScoreNotes(calculate_investment_score(props[n])))]
                    ELSE props[n]]
        appended == SelectSeq([n \in DOMAIN props |-> n], passes)
        keys == [n \in DOMAIN props |-> SortKey(after[n])]
    IN [properties |-> after, filtered |-> SortDescending(appended, keys)]

(***************************************************************************)
(* The filter on the records of the matcher: the EnrichedProperty objects  *)
(* match_property returns are given to filter_properties, which may be     *)
(* called again on the same objects.                                       *)
(***************************************************************************)

\* records in the list given to the filter
MaxRecords == 2
\* calls of filter_properties on that list
MaxFilterCalls == 2

GoldStreet == <<"1", "0", "0", " ", "G", "O", "L", "D", " ", "S", "T", "R", "E", "E", "T">>
Manhattan == <<"M", "a", "n", "h", "a", "t", "t", "a", "n">>
Bronx == <<"B", "r", "o", "n", "x">>
Queens == <<"Q", "u", "e", "e", "n", "s">>
MultiFamily == <<"M", "u", "l", "t", "i", " ", "F", "a", "m", "i", "l", "y">>
Multifamily == <<"M", "u", "l", "t", "i", "f", "a", "m", "i", "l", "y">>
MULTIFAMILYHOME == <<"M", "U", "L", "T", "I", " ", "F", "A", "M", "I", "L", "Y", " ", "H", "O", "M", "E">>
Condo == <<"C", "o", "n", "d", "o">>

\* a listing with the fields the filter reads
Listing(address, price, bedrooms, bathrooms, property_type, days_on_market) ==
    [ZillowProperty(address) EXCEPT !.price = price, !.bedrooms = bedrooms,
                                    !.bathrooms = bathrooms,
                                    !.property_type = property_type,
                                    !.days_on_market = days_on_market]

GoldManhattan == Address(GoldStreet, Some(Manhattan), None)

\* 100 GOLD STREET, Manhattan, 2,000,000, 6 bedrooms, 4.5 bathrooms
G1 == Listing(GoldManhattan, Some(2000000), Some(6), Some(45), None, None)
\* the same with a property-type label
G2 == [G1 EXCEPT !.property_type = Some(MULTIFAMILYHOME)]
\* priced above the default maximum
G3 == [G2 EXCEPT !.price = Some(3000000)]
\* without a price
G4 == [G2 EXCEPT !.price = None]
\* cheap and new on the market, at the minimum of bedrooms and bathrooms
G5 == Listing(Address(St1, Some(Brooklyn), Some(Zip)), Some(500000), Some(5),
              Some(40), Some(Multifamily), Some(5))
\* a type outside the allow-list, no borough
G6 == Listing(Address(St2, None, None), Some(1500000), Some(6), Some(40),
              Some(Condo), Some(20))

\* what HPDScraper.search_by_address builds: address=original_address,
\* has_b_units=len(b_units) > 0
Scraped(address, total_units, b_units) ==
    HPDBuilding(address, total_units, b_units, Len(b_units) > 0)

\* a listing, the cache the matcher holds and the answer of the collaborator
\* should it be called; the last listing is served from the cache
FilterInputs ==
    { <<G1, <<>>, Found(Scraped(G1.address, 3, <<U(<<"1">>), U(<<"2">>)>>))>>,
      <<G2, <<>>, Found(Scraped(G2.address, 3, <<U(<<"1">>), U(<<"2">>)>>))>>,
      <<G3, <<>>, Found(Scraped(G3.address, 3, <<U(<<"1">>), U(<<"2">>)>>))>>,
      <<G4, <<>>, Found(Scraped(G4.address, 3, <<U(<<"1">>), U(<<"2">>)>>))>>,
      <<G5, <<>>, Found(Scraped(G5.address, 5, <<U(<<"1">>), U(<<"2">>), U(<<"3">>)>>))>>,
      <<G2, <<>>, NoRecord>>,
      <<G2, <<>>, Found(Scraped(G2.address, 2, <<>>))>>,
      <<G6, <<>>, Found(Scraped(G6.address, 0, <<>>))>>,
      <<G5, load_cache(FileStore(<<OldRow>>)), NoRecord>> }

\* Config.filters with no environment variable set
DefaultCriteria ==
    FilterCriteria(0, 2500000, 5, 40, 2, TRUE,
                   Some(<<Manhattan, Brooklyn, Bronx, Queens>>),
                   Some(<<MultiFamily, Multifamily>>))
\* PROPERTY_TYPES set to the empty string: no type allow-list
AnyTypeCriteria == [DefaultCriteria EXCEPT !.property_types = None]
\* MIN_PRICE and MAX_PRICE set to a narrower and to a wider range
NarrowCriteria == [DefaultCriteria EXCEPT !.min_price = 1000000, !.max_price = 2000000]
WideCriteria == [DefaultCriteria EXCEPT !.max_price = 5000000]
\* every minimum at 0, no allow-list, special units not required
LenientCriteria == FilterCriteria(0, 2500000, 0, 0, 0, FALSE, None, None)

CriteriaPool ==
    {DefaultCriteria, AnyTypeCriteria, NarrowCriteria, WideCriteria, LenientCriteria}

\* a matcher that is not running, with an empty cache
MatcherIdle ==
    /\ store = MissingStore
    /\ cache_data = <<>>
    /\ new_hpd_data = {}
    /\ zillow_properties = <<>>
    /\ batch_size = 1
    /\ i = 0
    /\ results = <<>>
    /\ enriched_properties = <<>>
    /\ pc = "idle"
    /\ used = 0
    /\ lookups = <<>>
    /\ handed = {}
    /\ wrote = FALSE

FilterInit == MatcherIdle /\ FilterIdle /\ AddressIdle

\* the matcher returns one more record of the list the filter will be given
AddRecord(zp, cache, outcome) ==
    /\ filter_log = <<>>
    /\ Len(properties) < MaxRecords
    /\ properties' = Append(properties, match_property(zp, cache, {}, outcome).enriched)
    /\ UNCHANGED <<filter_log, matcher_vars, address_vars>>

\* filter_properties(properties) under the criteria configured
FilterProperties(criteria) ==
    /\ Len(filter_log) < MaxFilterCalls
    /\ LET r == filter_properties(properties, criteria)
       IN /\ properties' = r.properties
          /\ filter_log' = Append(filter_log, [criteria |-> criteria,
                                               filtered |-> r.filtered])
    /\ UNCHANGED <<matcher_vars, address_vars>>

FilterNext ==
    \/ \E input \in FilterInputs : AddRecord(input[1], input[2], input[3])
    \/ \E criteria \in CriteriaPool : FilterProperties(criteria)

FilterSpec == FilterInit /\ [][FilterNext]_vars

(***************************************************************************)
(* The normalisers and the scorer on their own: PropertyMatcher            *)
(* ._normalize_address and ._calculate_address_similarity (src/matcher.py) *)
(* and HPDCache._normalize_address (src/hpd_cache.py), applied to an       *)
(* address and to the same address written differently.                    *)
(***************************************************************************)

\* pieces a street is put together from
MaxPieces == 2

Pieces ==
    { <<"1", "0", "0", " ", "G", "O", "L", "D", " ">>, <<"1", "0", "0", " ", "G", "O", "L", "D", " ", " ">>, <<" ">>, <<"S", "T", "R", "E", "E", "T">>, <<"S", "T">>, <<"E", "A", "S", "T">>, <<"A", "S", "T">>, <<"e">> }

RECURSIVE StreetsOf(_)
StreetsOf(n) ==
    IF n = 0 THEN {<<>>}
    ELSE StreetsOf(n - 1) \cup {s \o piece : s \in StreetsOf(n - 1), piece \in Pieces}

Streets == StreetsOf(MaxPieces)

\* borough and zip code: both absent, both present, the borough alone
Localities == {<<None, None>>, <<Some(Brooklyn), Some(Zip)>>, <<Some(BROOKLYN), None>>}

AddressPool == {Address(street, loc[1], loc[2]) : street \in Streets, loc \in Localities}

AddressInit ==
    /\ MatcherIdle
    /\ FilterIdle
    /\ addr1 \in AddressPool
    /\ addr2 = addr1
    /\ answer = None

\* the same address with one long form of the table written as its abbreviation
Abbreviate(n) ==
    /\ answer = None
    /\ addr2 = addr1
    /\ addr2' = [addr1 EXCEPT !.street = Replace(addr1.street, replacements[n][1],
                                                 replacements[n][2])]
    /\ addr2' # addr1
    /\ UNCHANGED <<addr1, answer, matcher_vars, filter_vars>>

\* the same address with every run of inner whitespace written as one space
CollapseSpaces ==
    /\ answer = None
    /\ addr2 = addr1
    /\ addr2' = [addr1 EXCEPT !.street = Join(<<" ">>, Split(addr1.street))]
    /\ Strip(addr2'.street) # Strip(addr1.street)
    /\ UNCHANGED <<addr1, answer, matcher_vars, filter_vars>>

\* _calculate_address_similarity(addr1, addr2)
CalculateSimilarity ==
    /\ answer = None
    /\ answer' = <<"similarity", calculate_address_similarity(addr1, addr2)>>
    /\ UNCHANGED <<addr1, addr2, matcher_vars, filter_vars>>

\* PropertyMatcher._normalize_address(addr1)
NormalizeAddress ==
    /\ answer = None
    /\ addr2 = addr1
    /\ answer' = <<"normalized", Matcher_normalize_address(addr1)>>
    /\ UNCHANGED <<addr1, addr2, matcher_vars, filter_vars>>

\* PropertyMatcher._normalize_address on an address whose street is the
\* result of the call before
NormalizeAgain ==
    /\ answer # None
    /\ answer[1] = "normalized"
    /\ answer' = <<"renormalized", answer[2],
                   Matcher_normalize_address([addr1 EXCEPT !.street = answer[2]])>>
    /\ UNCHANGED <<addr1, addr2, matcher_vars, filter_vars>>

\* HPDCache._normalize_address of both
CacheKeys ==
    /\ answer = None
    /\ answer' = <<"keys", Cache_normalize_address(addr1), Cache_normalize_address(addr2)>>
    /\ UNCHANGED <<addr1, addr2, matcher_vars, filter_vars>>

AddressNext ==
    \/ \E n \in DOMAIN replacements : Abbreviate(n)
    \/ CollapseSpaces
    \/ CalculateSimilarity
    \/ NormalizeAddress
    \/ NormalizeAgain
    \/ CacheKeys

AddressSpec == AddressInit /\ [][AddressNext]_vars

(***************************************************************************)
(* Runs of the matcher over several processes                              *)
(*                                                                         *)
(* A process constructs one PropertyMatcher (src/main.py), whose HPDCache  *)
(* loads the backing file.  The file outlives the process; the next        *)
(* process loads what the last flush left.                                 *)
(***************************************************************************)

\* a street as a scraper may hand it over, with a trailing blank
St2Padded == <<"2", " ", "S", "T", " ">>

L3 == ZillowProperty(Address(St2Padded, Some(Brooklyn), Some(Zip)))

RunsListings == {L1, L3}

RunsListingSeqs == UNION {[1..n -> RunsListings] : n \in 0..MaxListings}

RunsStores == {MissingStore, FileStore(<<OldRow>>), FileStore(<<BlankRow, OldRow>>)}

RunsInit ==
    /\ store \in RunsStores
    /\ cache_data = load_cache(store)
    /\ new_hpd_data = {}
    /\ zillow_properties = <<>>
    /\ batch_size = 1
    /\ i = 0
    /\ results = <<>>
    /\ enriched_properties = <<>>
    /\ pc = "idle"
    /\ used = 0
    /\ lookups = <<>>
    /\ handed = {}
    /\ wrote = FALSE
    /\ FilterIdle
    /\ AddressIdle

\* the process ends between two runs and a new one constructs its matcher:
\* HPDCache() loads the file, new_hpd_data = {}
Restart ==
    /\ pc \in {"idle", "done"}
    /\ cache_data' = load_cache(store)
    /\ new_hpd_data' = {}
    /\ pc' = "idle"
    /\ zillow_properties' = <<>>
    /\ batch_size' = 1
    /\ i' = 0
    /\ results' = <<>>
    /\ enriched_properties' = <<>>
    /\ lookups' = <<>>
    /\ handed' = {}
    /\ wrote' = FALSE
    /\ UNCHANGED <<store, used, side_vars>>

RunsNext ==
    \/ \E zs \in RunsListingSeqs, bs \in 1..MaxBatch : StartRun(zs, bs)
    \/ \E pos \in 1..MaxBatch : MatchProperty(pos)
    \/ Gather
    \/ Sleep
    \/ Return
    \/ Restart

RunsSpec == RunsInit /\ [][RunsNext]_vars

(***************************************************************************)
(* Properties                                                              *)
(***************************************************************************)

Ran(n) == n \in DOMAIN lookups /\ lookups[n] # None
Lookup(n) == lookups[n][1]
KeyOf(zp) == Cache_normalize_address(zp.address)

\* the score of listing n against the candidate its lookup returned
CandidateScore(n) ==
    calculate_address_similarity(zillow_properties[n].address, Lookup(n).outcome[2].address)

C2_OneLookupPerMiss ==
    /\ \A n \in DOMAIN lookups :
         Ran(n) => /\ Lookup(n).calls <= 1
                   /\ Lookup(n).cached = None => Lookup(n).calls = 1
    /\ pc = "done" => \A n \in DOMAIN zillow_properties : Ran(n)

C2_Witness ==
    /\ pc = "done"
    /\ \E m, n \in DOMAIN lookups :
         /\ m # n
         /\ zillow_properties[m] = zillow_properties[n]
         /\ Lookup(m).calls = 1 /\ Lookup(n).calls = 1

\* C3: the records given to save_to_cache at the end of a run are exactly the
\* matched records whose building came from the collaborator in that run, never
\* a record served from the cache.
C3_HandedAreNewlyResolved ==
    pc = "done" =>
        handed = {n \in DOMAIN enriched_properties :
                    enriched_properties[n].hpd_match_found /\ Lookup(n).cached = None}

\* C4: every key a run adds to the cache is the key of a listing of the run whose
\* lookup returned a candidate that cleared the threshold and whose record is
\* matched with that building attached, and the entry is built from that
\* record; no record, an exception or a candidate below the threshold adds none.
C4_AddedKeysAreMatched ==
    [][pc' = "done" =>
         \A k \in DictKeys(cache_data') \ DictKeys(cache_data) :
            \E n \in DOMAIN enriched_properties' :
               /\ KeyOf(zillow_properties'[n]) = k
               /\ enriched_properties'[n].hpd_match_found
               /\ enriched_properties'[n].hpd_data # None
               /\ lookups'[n][1].outcome[1] = "found"
               /\ enriched_properties'[n].hpd_data[1] = lookups'[n][1].outcome[2]
               /\ calculate_address_similarity(zillow_properties'[n].address,
                                               lookups'[n][1].outcome[2].address) >= 80
               /\ DictGet(cache_data', k) = CacheRow(enriched_properties'[n])]_vars

C4_Witness ==
    /\ pc = "done"
    /\ \E m, n \in DOMAIN lookups :
         /\ Lookup(m).outcome[1] = "found" /\ ~enriched_properties[m].hpd_match_found
         /\ KeyOf(zillow_properties[m]) \notin DictKeys(cache_data)
         /\ Lookup(n).outcome[1] = "found" /\ enriched_properties[n].hpd_match_found
         /\ KeyOf(zillow_properties[n]) \in DictKeys(cache_data)

\* C5: save_to_cache keeps one entry per key, in cache_data and in the rows it
\* writes (the rows written are the entries of cache_data), and never changes or
\* drops an entry that is already there: the first record of a key wins.
C5_FirstWriteWins ==
    [][/\ \A k \in DictKeys(cache_data) :
             k \in DictKeys(cache_data') /\ DictGet(cache_data', k) = DictGet(cache_data, k)
       /\ Len(cache_data') = Cardinality(DictKeys(cache_data'))
       /\ pc' = "done" /\ wrote' =>
             /\ store' = FileStore(DictValues(cache_data'))
             /\ \A n \in handed' :
                   LET k == KeyOf(zillow_properties'[n])
                       first == CHOOSE m \in handed' :
                                   /\ KeyOf(zillow_properties'[m]) = k
                                   /\ \A o \in handed' :
                                         KeyOf(zillow_properties'[o]) = k => m <= o
                   IN /\ k \in DictKeys(cache_data')
                      /\ k \notin DictKeys(cache_data) =>
                            DictGet(cache_data', k) = CacheRow(enriched_properties'[first])]_vars

C5_Witness ==
    /\ pc = "done"
    /\ wrote
    /\ \E m, n \in handed :
         /\ m < n
         /\ KeyOf(zillow_properties[m]) = KeyOf(zillow_properties[n])
         /\ CacheRow(enriched_properties[m]) # CacheRow(enriched_properties[n])
         /\ DictGet(cache_data, KeyOf(zillow_properties[m])) = CacheRow(enriched_properties[m])

\* C6: the list a run returns has one record per input listing, the n-th record
\* owning the n-th listing, whatever the order in which the tasks of a batch
\* complete; the list being built is always such a prefix.
C6_OutputInInputOrder ==
    /\ Len(enriched_properties) <= Len(zillow_properties)
    /\ \A n \in DOMAIN enriched_properties :
         enriched_properties[n].zillow_data = zillow_properties[n]
    /\ pc = "done" => Len(enriched_properties) = Len(zillow_properties)

C6_Witness ==
    /\ pc = "done"
    /\ \E m, n \in DOMAIN lookups :
         /\ m < n
         /\ Lookup(m).overtaken
         /\ zillow_properties[m] # zillow_properties[n]
         /\ enriched_properties[m] # enriched_properties[n]

\* C7: a lookup that raises does not make the run raise, and the step it takes is
\* the step of a lookup that returned no record: the record of the listing is
\* unmatched, with no building and no tier, and new_hpd_data, the other results
\* and the position of the run are as after "no record".
C7_RaiseIsNoRecord ==
    [][/\ pc' # "raised"
       /\ \A pos \in DOMAIN results :
             (/\ results[pos] = None
              /\ pos \in DOMAIN results'
              /\ results'[pos] # None
              /\ lookups'[i + pos][1].outcome = Raises)
             => LET zp == zillow_properties[i + pos]
                    r == match_property(zp, cache_data, new_hpd_data, NoRecord)
                IN /\ results' = TaskDone(results, pos, r.enriched)
                   /\ new_hpd_data' = r.new_hpd_data
                   /\ ~results'[pos][1].hpd_match_found
                   /\ results'[pos][1].hpd_data = None
                   /\ results'[pos][1].match_confidence = None
                   /\ pc' = pc
                   /\ cache_data' = cache_data /\ store' = store
                   /\ enriched_properties' = enriched_properties]_vars

C7_Witness ==
    /\ pc = "done"
    /\ Len(enriched_properties) = 2
    /\ \E m, n \in DOMAIN lookups :
         /\ Lookup(m).outcome = Raises
         /\ ~enriched_properties[m].hpd_match_found
         /\ enriched_properties[n].hpd_match_found

\* C8: for a listing that missed the cache and got a candidate with score s, the
\* record is matched with the candidate attached iff s >= 80; then the tier is
\* High for s >= 95, Medium for 85 <= s < 95, Low for 80 <= s < 85; for s < 80
\* there is no record attached, no tier, and the unit counts stay zero.
C8_GateAndTier ==
    \A n \in DOMAIN enriched_properties :
        Lookup(n).outcome[1] = "found" =>
            LET s == CandidateScore(n)
                e == enriched_properties[n]
            IN /\ e.hpd_match_found <=> s >= 80
               /\ e.hpd_data = (IF s >= 80 THEN Some(Lookup(n).outcome[2]) ELSE None)
               /\ s >= 95 => e.match_confidence = Some(High)
               /\ s >= 85 /\ s < 95 => e.match_confidence = Some(Medium)
               /\ s >= 80 /\ s < 85 => e.match_confidence = Some(Low)
               /\ s < 80 => /\ e.match_confidence = None
                            /\ e.b_unit_count = 0
                            /\ e.total_units = 0
                            /\ ~e.has_b_units

C8_Witness ==
    /\ pc = "done"
    /\ \E m, n \in DOMAIN enriched_properties :
         /\ Lookup(m).outcome[1] = "found" /\ CandidateScore(m) = 85
         /\ enriched_properties[m].match_confidence = Some(Medium)
         /\ Lookup(n).outcome[1] = "found" /\ CandidateScore(n) < 80
         /\ ~enriched_properties[n].hpd_match_found

\* C9: a listing for which the cache returns a building gets a matched record
\* with exactly that building attached; the similarity gate never rejects it.
C9_CacheHitIsTrusted ==
    \A n \in DOMAIN enriched_properties :
        Lookup(n).cached # None =>
            /\ enriched_properties[n].hpd_match_found
            /\ enriched_properties[n].hpd_data = Lookup(n).cached

C9_Witness ==
    /\ pc = "done"
    /\ \E n \in DOMAIN enriched_properties :
         /\ Lookup(n).cached # None
         /\ enriched_properties[n].hpd_match_found
         /\ Lookup(n).calls = 0

\* C10: a returned record that is matched has a building, and its special-unit
\* count, has-special-units flag and total-unit count are the building's; one
\* that is not matched has no building, counts 0 and the flag false.
C10_RecordConsistent ==
    \A n \in DOMAIN enriched_properties :
        LET e == enriched_properties[n]
        IN IF e.hpd_match_found
           THEN /\ e.hpd_data # None
                /\ e.b_unit_count = Len(e.hpd_data[1].b_units)
                /\ e.has_b_units = e.hpd_data[1].has_b_units
                /\ e.total_units = e.hpd_data[1].total_units
           ELSE /\ e.hpd_data = None
                /\ e.b_unit_count = 0
                /\ e.total_units = 0
                /\ ~e.has_b_units

C10_Witness ==
    /\ pc = "done"
    /\ \E m, n \in DOMAIN enriched_properties :
         /\ enriched_properties[m].hpd_match_found
         /\ enriched_properties[m].b_unit_count = 2
         /\ enriched_properties[m].total_units = 3
         /\ ~enriched_properties[n].hpd_match_found


(***************************************************************************)
(* Properties of the filter, under FilterSpec                              *)
(***************************************************************************)

\* the positions a call of filter_properties returned
Returned(k) == {filter_log[k].filtered[m] : m \in DOMAIN filter_log[k].filtered}

\* the gate as the specification words it
GateInWords(p, c) ==
    /\ p.zillow_data.price # None
    /\ c.min_price <= p.zillow_data.price[1] /\ p.zillow_data.price[1] <= c.max_price
    /\ p.zillow_data.bedrooms # None /\ p.zillow_data.bedrooms[1] >= c.min_bedrooms
    /\ p.zillow_data.bathrooms # None /\ p.zillow_data.bathrooms[1] >= c.min_bathrooms
    /\ p.hpd_match_found /\ p.total_units >= c.min_units
    /\ c.require_b_units => p.b_unit_count >= 1
    /\ Truthy(c.boroughs) =>
          /\ p.zillow_data.address.borough # None
          /\ \E b \in DOMAIN c.boroughs[1] :
                c.boroughs[1][b] = p.zillow_data.address.borough[1]
    /\ Truthy(c.property_types) =>
          /\ p.zillow_data.property_type # None
          /\ \E t \in DOMAIN c.property_types[1] :
                Contains(Lower(p.zillow_data.property_type[1]),
                         Lower(c.property_types[1][t]))

\* C11: every record that passed the gate carries an investment score between
\* 0 and 100, the score calculate_investment_score gives it, and the score
\* stays in that range whatever its special-unit count, total-unit count,
\* price and days on market are
C11_ScoreWithinRange ==
    \A n \in DOMAIN properties :
        properties[n].meets_criteria =>
            LET p == properties[n]
            IN /\ calculate_investment_score(p) \in 0..100
               /\ SortKey(p) = 10 * calculate_investment_score(p)
               /\ \A b \in {0, 3, 4}, t \in {0, 5, 6},
                     price \in {None, Some(100000)}, dom \in {None, Some(0)} :
                     calculate_investment_score(
                        [p EXCEPT !.b_unit_count = b, !.has_b_units = b > 0,
                                  !.total_units = t,
                                  !.zillow_data.price = price,
                                  !.zillow_data.days_on_market = dom]) \in 0..100

\* a returned record whose terms add up to more than 100
C11_Witness ==
    \E k \in DOMAIN filter_log : \E n \in Returned(k) :
        /\ RawScore(properties[n]) > 100
        /\ SortKey(properties[n]) = 1000

\* C12: the list returned holds positions of the list given, none twice, in
\* descending order of score, records of equal score in their input order
C12_SortedSubsequence ==
    \A k \in DOMAIN filter_log :
        LET f == filter_log[k].filtered
            score(n) == calculate_investment_score(properties[n])
        IN /\ \A m \in DOMAIN f : f[m] \in DOMAIN properties
           /\ \A m, n \in DOMAIN f : m < n => f[m] # f[n]
           /\ \A m, n \in DOMAIN f :
                 m < n => \/ score(f[m]) > score(f[n])
                          \/ score(f[m]) = score(f[n]) /\ f[m] < f[n]

\* a call that returned two records in the reverse of their input order
C12_Witness ==
    \E k \in DOMAIN filter_log :
        /\ Len(filter_log[k].filtered) = 2
        /\ filter_log[k].filtered[1] > filter_log[k].filtered[2]

\* C13: the list returned holds exactly the records that pass the seven gate
\* checks; no record without a price or priced outside the range is in it,
\* and no unmatched record, whatever min_units is
C13_ExactlyThePassing ==
    \A k \in DOMAIN filter_log :
        LET c == filter_log[k].criteria
        IN /\ Returned(k) = {n \in DOMAIN properties : GateInWords(properties[n], c)}
           /\ \A n \in Returned(k) :
                 /\ properties[n].zillow_data.price # None
                 /\ properties[n].zillow_data.price[1] >= c.min_price
                 /\ properties[n].zillow_data.price[1] <= c.max_price
                 /\ properties[n].hpd_match_found

\* a call with min_units 0 that left out an unmatched record, which passes the
\* other six checks, and a call that left out a record for its price alone
C13_Witness ==
    /\ \E k \in DOMAIN filter_log : \E n \in DOMAIN properties \ Returned(k) :
          /\ filter_log[k].criteria.min_units = 0
          /\ ~properties[n].hpd_match_found
          /\ GateInWords([properties[n] EXCEPT !.hpd_match_found = TRUE],
                         filter_log[k].criteria)
    /\ \E k \in DOMAIN filter_log : \E n \in DOMAIN properties \ Returned(k) :
          /\ properties[n].zillow_data.price # None
          /\ properties[n].zillow_data.price[1] > filter_log[k].criteria.max_price
          /\ GateInWords([properties[n] EXCEPT !.zillow_data.price = Some(0)],
                         [filter_log[k].criteria EXCEPT !.min_price = 0])

\* criteria that differ in the price range at most
SameButPrice(c1, c2) ==
    [c1 EXCEPT !.min_price = 0, !.max_price = 0]
       = [c2 EXCEPT !.min_price = 0, !.max_price = 0]

\* C14: of two calls on the same records whose criteria differ in the price
\* range only, the one with the wider range returns every record the one with
\* the narrower range returns
C14_PriceMonotonic ==
    \A j, k \in DOMAIN filter_log :
        LET c1 == filter_log[j].criteria
            c2 == filter_log[k].criteria
        IN (/\ SameButPrice(c1, c2)
            /\ c2.min_price <= c1.min_price
            /\ c1.max_price <= c2.max_price)
           => Returned(j) \subseteq Returned(k)

\* a narrower range returned a record and the wider range returned one more
C14_Witness ==
    \E j, k \in DOMAIN filter_log :
        /\ SameButPrice(filter_log[j].criteria, filter_log[k].criteria)
        /\ filter_log[k].criteria.min_price < filter_log[j].criteria.min_price
        /\ filter_log[j].criteria.max_price < filter_log[k].criteria.max_price
        /\ Returned(j) # {}
        /\ Returned(j) # Returned(k)

\* C15: with require_b_units set every record returned has at least one
\* special unit and every record with one passes the check; with it unset the
\* check excludes no record
C15_RequiredSpecialUnits ==
    \A k \in DOMAIN filter_log :
        LET c == filter_log[k].criteria
        IN /\ c.require_b_units =>
                 \A n \in Returned(k) : properties[n].b_unit_count >= 1
           /\ \A n \in DOMAIN properties :
                 properties[n].b_unit_count >= 1 =>
                    has_required_b_units(properties[n], c)
           /\ ~c.require_b_units =>
                 \A n \in DOMAIN properties :
                    /\ has_required_b_units(properties[n], c)
                    /\ GateInWords(properties[n], c) => n \in Returned(k)

\* a call with require_b_units set left out a record for having no special
\* unit and returned one that has some, and a call with it unset returned a
\* record that has none
C15_Witness ==
    /\ \E k \in DOMAIN filter_log :
          /\ filter_log[k].criteria.require_b_units
          /\ \E n \in Returned(k) : properties[n].b_unit_count >= 1
          /\ \E n \in DOMAIN properties \ Returned(k) :
                /\ properties[n].b_unit_count = 0
                /\ GateInWords(properties[n],
                               [filter_log[k].criteria EXCEPT !.require_b_units = FALSE])
    /\ \E k \in DOMAIN filter_log :
          /\ ~filter_log[k].criteria.require_b_units
          /\ \E n \in Returned(k) : properties[n].b_unit_count = 0

\* the building of the scenario for a listing: 3 units, 2 of them special
ScenarioBuilding(zp) == Scraped(zp.address, 3, <<U(<<"1">>), U(<<"2">>)>>)

\* p is the record match_property makes of zp and that building, as the
\* filter may have marked it
IsScenario(p, zp) ==
    /\ p.zillow_data = zp
    /\ p.total_units = 3
    /\ [p EXCEPT !.meets_criteria = FALSE, !.notes = None]
          = match_property(zp, <<>>, {}, Found(ScenarioBuilding(zp))).enriched

\* C16 as stated: the listing 100 GOLD STREET, Manhattan, 2,000,000, 6
\* bedrooms, 4.5 bathrooms, matched against that building, is matched with a
\* tier and 2 special units, and passes the default criteria with a score of
\* at least 65
C16_ScenarioPasses ==
    \A n \in DOMAIN properties :
        IsScenario(properties[n], G1) =>
            /\ properties[n].hpd_match_found
            /\ properties[n].match_confidence \in {Some(High), Some(Medium), Some(Low)}
            /\ properties[n].b_unit_count = 2
            /\ \A k \in DOMAIN filter_log :
                  filter_log[k].criteria = DefaultCriteria =>
                     /\ n \in Returned(k)
                     /\ SortKey(properties[n]) >= 650

\* C16 amended: that listing is matched with a tier and 2 special units; it
\* passes the default criteria with a score of at least 65 when it carries a
\* property-type label that contains an allowed type, and it passes them
\* with the type allow-list left out whether it carries a label or not
C16_ScenarioWithType ==
    \A n \in DOMAIN properties : \A zp \in {G1, G2} :
        IsScenario(properties[n], zp) =>
            /\ properties[n].hpd_match_found
            /\ properties[n].match_confidence \in {Some(High), Some(Medium), Some(Low)}
            /\ properties[n].b_unit_count = 2
            /\ \A k \in DOMAIN filter_log :
                  (\/ filter_log[k].criteria = DefaultCriteria /\ zp = G2
                   \/ filter_log[k].criteria = AnyTypeCriteria) =>
                     /\ n \in Returned(k)
                     /\ SortKey(properties[n]) >= 650

\* the listing with a label passed the default criteria with a score of 65,
\* and the listing without one was left out by them
C16_Witness ==
    \E k \in DOMAIN filter_log :
        /\ filter_log[k].criteria = DefaultCriteria
        /\ \E n \in Returned(k) :
              IsScenario(properties[n], G2) /\ SortKey(properties[n]) = 650
        /\ \E n \in DOMAIN properties \ Returned(k) : IsScenario(properties[n], G1)

(***************************************************************************)
(* Properties of the normalisers and the scorer, under AddressSpec         *)
(***************************************************************************)

\* C17: the similarity of an address with itself is 100, whatever its street
\* (the empty and the whitespace-only street included), borough and zip code
C17_SelfSimilarityIs100 ==
    (answer # None /\ answer[1] = "similarity" /\ addr2 = addr1) => answer[2] = 100

\* an address scored against itself whose street is whitespace only and that
\* has neither borough nor zip code, so that no boost applies
C17_Witness ==
    /\ answer # None /\ answer[1] = "similarity"
    /\ addr2 = addr1
    /\ addr1.street # <<>> /\ Strip(addr1.street) = <<>>
    /\ addr1.borough = None /\ addr1.zip_code = None
    /\ answer[2] = 100

\* C18: normalising the result of _normalize_address again gives the same
\* street
C18_NormalizeIdempotent ==
    (answer # None /\ answer[1] = "renormalized") => answer[3] = answer[2]

\* C19: two addresses with the same borough whose streets differ only in a
\* long form against its abbreviation or in repeated inner whitespace (the
\* comparison key of the two is the same) have the same cache key
C19_VariantsShareKey ==
    (/\ answer # None /\ answer[1] = "keys"
     /\ addr1.borough = addr2.borough
     /\ Matcher_normalize_address(addr1) = Matcher_normalize_address(addr2))
    => answer[2] = answer[3]

(***************************************************************************)
(* Properties of the cache load, under Spec                                *)
(***************************************************************************)

\* reading the file fails: it is missing, not a workbook, or has a row that
\* cannot be keyed
LoadFails(file) ==
    \/ file[1] # "rows"
    \/ \E n \in DOMAIN file[2] : ~Keyable(ReadRow(file[2][n]))

\* C20: after a load that failed the cache in memory is empty (the state
\* before any listing was handed over is the state load left)
C20_FailedLoadLeavesEmptyCache ==
    (used = 0 /\ LoadFails(store)) => cache_data = <<>>

(***************************************************************************)
(* The flush at the end of a run                                           *)
(***************************************************************************)

\* the step in which match_properties_batch passes its loop and returns
Finishes == pc # "done" /\ pc' = "done"

\* C21: when the write of the backing file fails in the flush of a run, the run
\* still returns (no exception), with one record per listing, the file is as it
\* was, and every record handed to the flush has its key in cache_data; an
\* entry inserted by this flush is served by the next lookup of its address.
C21_FailedWriteIsNotFatal ==
    [][(Finishes /\ handed' # {} /\ ~wrote') =>
          /\ store' = store
          /\ Len(enriched_properties') = Len(zillow_properties')
          /\ \A n \in DOMAIN zillow_properties' :
                enriched_properties'[n].zillow_data = zillow_properties'[n]
          /\ \A n \in handed' :
                /\ KeyOf(zillow_properties'[n]) \in DictKeys(cache_data')
                /\ KeyOf(zillow_properties'[n]) \notin DictKeys(cache_data) =>
                      get_cached_hpd_data(cache_data', zillow_properties'[n].address) # None]_vars

C21_Witness ==
    /\ pc = "done"
    /\ ~wrote
    /\ store = MissingStore
    /\ \E n \in handed :
         /\ ~Lookup(n).key_present
         /\ get_cached_hpd_data(cache_data, zillow_properties[n].address) # None

(***************************************************************************)
(* The cache across processes                                              *)
(***************************************************************************)

\* listing n of the finished run was resolved through the collaborator and matched
ResolvedFresh(n) ==
    /\ Ran(n)
    /\ Lookup(n).calls > 0
    /\ enriched_properties[n].hpd_match_found

\* C22: when a run has resolved a listing through the collaborator with
\* match-found = true and its flush has written the file, the cache the next
\* process loads from the file serves a listing with the same address (same
\* street string and borough), so that no collaborator call is made for it.
C22_DeduplicatedAcrossRuns ==
    [][(Restart /\ pc = "done" /\ wrote) =>
          \A n \in DOMAIN lookups :
              ResolvedFresh(n) =>
                  CollaboratorCalls(get_cached_hpd_data(cache_data',
                                        zillow_properties[n].address)) = 0]_vars

\* the record match_property returns for listing n of the finished run when it is
\* enriched again, now that the flush has put its address in cache_data
EnrichedAgain(n) ==
    match_property(zillow_properties[n], cache_data, new_hpd_data, NoRecord).enriched

\* listing n of the finished run is served from the cache from now on
NowCached(n) == get_cached_hpd_data(cache_data, zillow_properties[n].address) # None

Joined == \A pos \in DOMAIN results : results[pos] # None

\* C24: cache_data changes only in the step that ends a run, after the last
\* batch has joined and every listing of the run has had its lookup; while a
\* lookup is pending or a batch is left it stays as it was when the run
\* started.
C24_JoinThenMutate ==
    [][cache_data' # cache_data =>
          /\ pc = "batch"
          /\ pc' = "done"
          /\ Joined
          /\ i + batch_size >= Len(zillow_properties)
          /\ \A n \in DOMAIN zillow_properties : Ran(n)]_vars

C24_Witness ==
    /\ pc = "done"
    /\ i > 0
    /\ \E n \in handed :
         /\ n <= i
         /\ ~Lookup(n).key_present
         /\ KeyOf(zillow_properties[n]) \in DictKeys(cache_data)

\* the listings of the batch at hand
CurrentBatch == BatchIndices(Len(zillow_properties), i, batch_size)

\* C25, in a state: the tasks in flight are those of one batch, at most
\* batch_size of them; every listing of an earlier batch has had its lookup and
\* none of a later batch has; the loop sleeps only with listings left.
C25_OneBatchAtATime ==
    pc \in {"batch", "sleep"} =>
        /\ Len(results) <= batch_size
        /\ Len(results) = Cardinality(CurrentBatch)
        /\ \A n \in DOMAIN zillow_properties :
              /\ n <= i => Ran(n)
              /\ n > i + batch_size => ~Ran(n)
              /\ Ran(n) => n <= i + Len(results)
        /\ pc = "sleep" => (Joined /\ i + batch_size < Len(zillow_properties))

\* C25, in a step: within a run the loop moves on to the next batch only from
\* the sleep, which it enters only when the batch at hand has joined and
\* listings are left; after the last batch it ends the run without sleeping.
C25_PacedBetweenBatches ==
    [][/\ i' # i => pc # "batch"
       /\ (pc = "sleep") => (pc' = "batch" /\ i' = i + batch_size)
       /\ (pc = "batch" /\ pc' = "sleep") =>
              (Joined /\ i + batch_size < Len(zillow_properties))
       /\ (pc = "batch" /\ pc' = "done") =>
              (Joined /\ i + batch_size >= Len(zillow_properties))]_vars

\* C25: batches are processed one after another, with the pacing delay between
\* consecutive batches and none after the last.
C25_BatchesInSequence == [](C25_OneBatchAtATime) /\ C25_PacedBetweenBatches

C25_Witness ==
    /\ pc = "batch"
    /\ i > 0
    /\ batch_size = 1
    /\ Ran(1)
    /\ ~Ran(2)

\* C26 as stated: every run (here: over at least one listing) that has ended
\* has written the backing file (has reached the write of save_to_cache), also
\* a run in which no address was newly resolved.
C26_WrittenInEveryRun == (pc = "done" /\ zillow_properties # <<>>) => handed # {}

\* C26 amended: the backing file is written only in the step that ends a run,
\* after the last batch has joined, and only when at least one record is handed
\* to save_to_cache; a run that hands over none leaves the file as it was.
C26_WrittenAtMostOncePerRun ==
    [][/\ (store' # store \/ (wrote' /\ ~wrote)) =>
              /\ Finishes
              /\ handed' # {}
              /\ pc = "batch"
              /\ Joined
              /\ i + batch_size >= Len(zillow_properties)
       /\ (Finishes /\ handed' = {}) => (store' = store /\ ~wrote')]_vars

C26_Witness ==
    /\ pc = "done"
    /\ handed = {}
    /\ ~wrote
    /\ store = FileStore(<<OldRow>>)
    /\ \E n \in DOMAIN lookups : Ran(n) /\ Lookup(n).calls = 0

(***************************************************************************)
(* Records served from the cache                                           *)
(***************************************************************************)

\* the row the lookup of listing n found under its key
RowOf(n) == DictGet(cache_data, KeyOf(zillow_properties[n]))

\* the number cells of the row hold numbers or are empty
Readable(row) == row.BUnitCount[1] # "str" /\ row.TotalUnits[1] # "str"

\* the special-unit count stored in the row
StoredCount(row) == IF row.BUnitCount[1] = "num" THEN row.BUnitCount[2] ELSE 0

C28_CacheKeepsUnitCounts ==
    pc = "done" =>
        \A n \in DOMAIN enriched_properties :
            (ResolvedFresh(n) /\ NowCached(n)) =>
                /\ EnrichedAgain(n).total_units = enriched_properties[n].total_units
                /\ EnrichedAgain(n).b_unit_count = enriched_properties[n].b_unit_count

(***************************************************************************)
(* The flags the filter leaves on the records                              *)
(***************************************************************************)

\* C29: after any sequence of filter_properties calls on the same records, a
\* record has meets_criteria = TRUE and its score in its note exactly when it
\* is in the list the most recent call returned; a record that failed the
\* gate of that call has meets_criteria = FALSE.
C29_FlagTracksLastCall ==
    filter_log # <<>> =>
        \A n \in DOMAIN properties :
            (/\ properties[n].meets_criteria
             /\ properties[n].notes =
                   Some(ScoreNotes(calculate_investment_score(properties[n]))))
              <=> n \in Returned(Len(filter_log))

(***************************************************************************)
(* The rows of the backing file                                            *)
(***************************************************************************)

\* the rows of a file as pandas reads them
RowsIn(file) == IF file[1] = "rows" THEN {ReadRow(file[2][m]) : m \in DOMAIN file[2]} ELSE {}

\* C30: a flush never removes a row from the backing file: every row in the
\* file before a write is in it afterwards, also when the load of the process
\* failed part-way through the rows.
C30_StoreOnlyGrows == [][RowsIn(store) \subseteq RowsIn(store')]_vars

=========================================================================
